---- MODULE Spec2Model ----
(***************************************************************************)
(* A model of the Thai-to-English translation notebook (src/main.ipynb):   *)
(* the function translate_column and the driver cells that load the two    *)
(* datasets, translate their comment_text column and write the augmented   *)
(* tables.  Strings are sequences of one-character strings.                *)
(***************************************************************************)
EXTENDS Integers, Sequences, FiniteSets, TLC

\* ------------------------------------------------------------------ bounds
\* Longest dataset of the specification Spec (rows are any of Texts).
MaxRows == 2
\* Longest dataset of the specification LongSpec (rows cycle through TextSeq).
MaxLongRows == 301
\* The lengths of LongSpec's datasets lie this close to a multiple of Milestone.
LongSlack == 1

\* --------------------------------------------------------------- constants
\* The period of the milestone notification (successful_translation % 100).
Milestone == 100

\* Python's str.strip() removes these from both ends.
Whitespace == {" ", "\n", "\t"}

\* The cell texts the datasets are made of: plain, whitespace only, and one
\* with braces, a newline, an inner blank and punctuation.
TextSeq == << <<"k">>, <<" ">>, <<"{", "\n", "m", " ", "}", "!">> >>
Texts == {TextSeq[i] : i \in 1..Len(TextSeq)}

\* The whitespace a service response may carry around its translation.
Pads == { <<>>, <<" ">>, <<"\n", " ">> }

TestIn == "mask_test.csv"
TrainIn == "mask_train.csv"
TestOut == "mask_test_translated.csv"
TrainOut == "mask_train_translated.csv"
InputColumn == "comment_text"
OutputColumn == "english_comment_text"

\* The four safety settings, each with threshold BLOCK_NONE.
safety_config ==
  << [category |-> "HARM_CATEGORY_DANGEROUS_CONTENT", threshold |-> "BLOCK_NONE"],
     [category |-> "HARM_CATEGORY_HARASSMENT", threshold |-> "BLOCK_NONE"],
     [category |-> "HARM_CATEGORY_HATE_SPEECH", threshold |-> "BLOCK_NONE"],
     [category |-> "HARM_CATEGORY_SEXUALLY_EXPLICIT", threshold |-> "BLOCK_NONE"] >>

\* ------------------------------------------------------------ pure helpers
RECURSIVE LStrip(_)
LStrip(s) ==
  IF s # <<>> /\ Head(s) \in Whitespace THEN LStrip(Tail(s)) ELSE s

RECURSIVE RStrip(_)
RStrip(s) ==
  IF s # <<>> /\ s[Len(s)] \in Whitespace
  THEN RStrip(SubSeq(s, 1, Len(s) - 1)) ELSE s

\* str.strip(): leading and trailing whitespace removed.
Strip(s) == RStrip(LStrip(s))

\* The fixed parts of example_prompt before and after the placeholder {text}.
TemplateHead == <<"[instruction+example]", "[Thai Text]", "\n">>
TemplateTail == <<"\n", "[English Text]", "\n">>

\* example_prompt.format(text=text): the text inserted at the placeholder.
RECURSIVE EscapeBraces(_)
EscapeBraces(t) ==
  IF t = <<>> THEN <<>>
  ELSE (IF Head(t) \in {"{", "}"} THEN <<Head(t), Head(t)>> ELSE <<Head(t)>>)
       \o EscapeBraces(Tail(t))
FormatPromptEscaped(text) == TemplateHead \o EscapeBraces(text) \o TemplateTail
FormatPrompt(text) == TemplateHead \o text \o TemplateTail

\* The service's reading of a prompt: the text between the fixed parts.
PromptText(p) ==
  SubSeq(p, Len(TemplateHead) + 1, Len(p) - Len(TemplateTail))

\* The service's translation of a text, character by character.
EnglishOf(c) == IF c = "k" THEN "K" ELSE IF c = "m" THEN "M" ELSE c
Translation(t) == [i \in 1..Len(t) |-> EnglishOf(t[i])]

\* ---------------------------------------------------------------- tables
\* A table is a function from column names to equally long columns.
NoTable == [c \in {} |-> <<>>]
NRows(cols) == IF DOMAIN cols = {} THEN 0
               ELSE Len(cols[CHOOSE c \in DOMAIN cols : TRUE])

\* pd.read_csv: the file's columns under a fresh index 0..n-1.
ReadCsv(file) ==
  [index |-> [i \in 1..NRows(file) |-> i - 1], cols |-> file]

\* DataFrame.to_csv(index=False): the columns without the index.
ToCsv(df) == df.cols

\* pd.Series(values, index=index)
Series(values, index) == [index |-> index, values |-> values]

\* df[name] = series: the series' values placed by index label.
SetColumnOnly(df, name, series) ==
  [df EXCEPT !.cols = (name :> series.values)]
SetColumn(df, name, series) ==
  [df EXCEPT !.cols =
     (name :> [i \in 1..Len(df.index) |->
                 series.values[CHOOSE j \in 1..Len(series.index) :
                                 series.index[j] = df.index[i]]])
     @@ df.cols]

SeqsUpTo(S, n) == UNION {[1..k -> S] : k \in 0..n}
CsvFile(name, column) == (name :> column)
SmallFiles ==
  {CsvFile(nm, col) : nm \in {InputColumn, "text"}, col \in SeqsUpTo(Texts, MaxRows)}
CyclicColumn(n) == [i \in 1..n |-> TextSeq[((i - 1) % Len(TextSeq)) + 1]]
LongLengths ==
  {n \in 0..MaxLongRows :
     n % Milestone <= LongSlack \/ n % Milestone >= Milestone - LongSlack}
LongFiles == {CsvFile(InputColumn, CyclicColumn(n)) : n \in LongLengths}
TinyFiles == {CsvFile(InputColumn, CyclicColumn(n)) : n \in 0..1}

\* ----------------------------------------------------------------- state
VARIABLES
  disk,            \* file name -> table, the files present
  thai_test_df,    \* the driver's test DataFrame
  thai_train_df,   \* the driver's train DataFrame
  cell,            \* the driver cell that runs next
  call,            \* the dataset translate_column was last called for
  pc,              \* position inside translate_column
  df,              \* translate_column's argument (the deep copy)
  it,              \* rows the loop's iterator has handed out so far
  text,            \* the loop variable
  translated_texts,
  successful_translation,
  response,        \* the response object of the request in flight
  retval,          \* what translate_column returned
  bar,             \* tqdm's counter of completed iterations
  stdout,          \* the printed notifications, in order
  requests,        \* every request the service has received, in order
  outstanding,     \* requests issued and not yet answered
  error            \* the exception that reached the top level

vars == <<disk, thai_test_df, thai_train_df, cell, call, pc, df, it, text,
          translated_texts, successful_translation, response, retval, bar,
          stdout, requests, outstanding, error>>

NoFrame == [index |-> <<>>, cols |-> NoTable]
NoResponse == [kind |-> "none", text |-> <<>>]
NoSeries == [index |-> <<>>, values |-> <<>>]

\* The dataset a driver cell works on.
DatasetOf(c) == IF c \in {"translate_test", "write_test"} THEN "test" ELSE "train"
CallerFrame(c) == IF c = "test" THEN thai_test_df ELSE thai_train_df

InitWith(testFiles, trainFiles) ==
  /\ \E ft \in testFiles, fr \in trainFiles :
       disk = (TestIn :> ft) @@ (TrainIn :> fr)
  /\ thai_test_df = NoFrame
  /\ thai_train_df = NoFrame
  /\ cell = "load"
  /\ call = "none"
  /\ pc = "idle"
  /\ df = NoFrame
  /\ it = 0
  /\ text = <<>>
  /\ translated_texts = <<>>
  /\ successful_translation = 0
  /\ response = NoResponse
  /\ retval = NoSeries
  /\ bar = 0
  /\ stdout = <<>>
  /\ requests = <<>>
  /\ outstanding = 0
  /\ error = "none"

Init == InitWith(SmallFiles, SmallFiles)
LongInit == InitWith(LongFiles, TinyFiles)

\* ---------------------------------------------------------------- driver
\* Cell 7: both input files are read into memory.
LoadDatasets ==
  /\ cell = "load"
  /\ thai_train_df' = ReadCsv(disk[TrainIn])
  /\ thai_test_df' = ReadCsv(disk[TestIn])
  /\ cell' = "translate_test"
  /\ UNCHANGED <<disk, call, pc, df, it, text, translated_texts,
                 successful_translation, response, retval, bar, stdout,
                 requests, outstanding, error>>

\* An exception leaves translate_column (raise e) and stops the notebook.
\* (The variants change the except clause, which a KeyError never enters.)
Propagate(e) ==
  /\ pc' = "raised"
  /\ error' = e
  /\ cell' = "error"
RaiseSwallowed(e) ==
  IF e = "KeyError" THEN Propagate(e)
  ELSE pc' = "next" /\ error' = e /\ UNCHANGED cell
RaiseRetried(e) ==
  IF e = "KeyError" THEN Propagate(e)
  ELSE pc' = "render" /\ error' = "none" /\ UNCHANGED cell
RaiseAndRunOn(e) ==
  /\ pc' = "idle"
  /\ error' = e
  /\ cell' = IF cell = "translate_test" THEN "write_test" ELSE "write_train"
Raise(e) == Propagate(e)

\* df[column_name] raises KeyError unless the frame has the column.
HasAnyColumn(frame, name) == DOMAIN frame.cols # {}
HasColumn(frame, name) == name \in DOMAIN frame.cols

\* translate_column(df.copy(deep=True), "comment_text", model) is entered:
\* the locals are set and df[column_name] is looked up for the loop.
TranslateStart ==
  /\ cell \in {"translate_test", "translate_train"}
  /\ pc = "idle"
  /\ call' = DatasetOf(cell)
  /\ df' = CallerFrame(DatasetOf(cell))
  /\ translated_texts' = <<>>
  /\ successful_translation' = 0
  /\ it' = 0
  /\ bar' = 0
  /\ text' = <<>>
  /\ response' = NoResponse
  /\ IF HasColumn(CallerFrame(DatasetOf(cell)), InputColumn)
     THEN pc' = "next" /\ UNCHANGED <<error, cell>>
     ELSE Raise("KeyError")
  /\ UNCHANGED <<disk, thai_test_df, thai_train_df, retval, stdout,
                 requests, outstanding>>

Column == df.cols[InputColumn]

\* The milestone test at the top of the loop body.
MilestoneDueFromZero == successful_translation % Milestone = 0
MilestoneDueOneEarly ==
  translated_texts # <<>> /\ (successful_translation + 1) % Milestone = 0
MilestoneDue == translated_texts # <<>> /\ successful_translation % Milestone = 0

\* print(f"Successful translation: {successful_translation}")
NotificationOneBased(count) == [call |-> call, count |-> count + 1]
Notification(count) == [call |-> call, count |-> count]

\* The row the iterator hands out after i rows.
RowAtReversed(col, i) == col[Len(col) - i]
RowAt(col, i) == col[i + 1]

\* The loop takes the next row: tqdm counts the finished iteration, the
\* milestone is printed when due.
NextRow ==
  /\ pc = "next"
  /\ it < Len(Column)
  /\ bar' = it
  /\ text' = RowAt(Column, it)
  /\ it' = it + 1
  /\ response' = NoResponse
  /\ stdout' = IF MilestoneDue
               THEN Append(stdout, Notification(successful_translation))
               ELSE stdout
  /\ pc' = "render"
  /\ UNCHANGED <<disk, thai_test_df, thai_train_df, cell, call, df,
                 translated_texts, successful_translation, retval,
                 requests, outstanding, error>>

\* The prompt is rendered and submitted with the safety settings.
SendRequestNoWait ==
  /\ pc = "render"
  /\ requests' = Append(requests,
                   [call |-> call, row |-> it - 1,
                    prompt |-> FormatPrompt(text),
                    safety_settings |-> safety_config])
  /\ outstanding' = outstanding + 1
  /\ pc' = "next"
  /\ UNCHANGED <<disk, thai_test_df, thai_train_df, cell, call, df, it, text,
                 translated_texts, successful_translation, response, retval,
                 bar, stdout, error>>
SendRequestDefaultSafety ==
  /\ pc = "render"
  /\ requests' = Append(requests,
                   [call |-> call, row |-> it - 1,
                    prompt |-> FormatPrompt(text),
                    safety_settings |-> <<>>])
  /\ outstanding' = outstanding + 1
  /\ pc' = "wait"
  /\ UNCHANGED <<disk, thai_test_df, thai_train_df, cell, call, df, it, text,
                 translated_texts, successful_translation, response, retval,
                 bar, stdout, error>>
SendRequest ==
  /\ pc = "render"
  /\ requests' = Append(requests,
                   [call |-> call, row |-> it - 1,
                    prompt |-> FormatPrompt(text),
                    safety_settings |-> safety_config])
  /\ outstanding' = outstanding + 1
  /\ pc' = "wait"
  /\ UNCHANGED <<disk, thai_test_df, thai_train_df, cell, call, df, it, text,
                 translated_texts, successful_translation, response, retval,
                 bar, stdout, error>>

\* What the service answers to a prompt: its translation inside some
\* whitespace, or a response without readable text.
Replies(prompt) ==
  {[kind |-> "text", text |-> l \o Translation(PromptText(prompt)) \o t] :
     l \in Pads, t \in Pads}
  \cup {[kind |-> "blocked", text |-> <<>>]}

\* generate_content returns a response.
ServiceReply ==
  /\ pc = "wait"
  /\ \E r \in Replies(requests[Len(requests)].prompt) : response' = r
  /\ outstanding' = outstanding - 1
  /\ pc' = "got"
  /\ UNCHANGED <<disk, thai_test_df, thai_train_df, cell, call, df, it, text,
                 translated_texts, successful_translation, retval, bar,
                 stdout, requests, error>>

\* generate_content raises (network, quota, service-side rejection).
ServiceFail ==
  /\ pc = "wait"
  /\ outstanding' = outstanding - 1
  /\ Raise("ServiceError")
  /\ UNCHANGED <<disk, thai_test_df, thai_train_df, call, df, it, text,
                 translated_texts, successful_translation, response, retval,
                 bar, stdout, requests>>

\* The entry appended for a response text: .text.strip()
EntryLeftStripped(t) == LStrip(t)
Entry(t) == Strip(t)

\* .text.strip() is appended and the success counted; a response without
\* text raises instead.
Collect ==
  /\ pc = "got"
  /\ IF response.kind = "text"
     THEN /\ translated_texts' = Append(translated_texts, Entry(response.text))
          /\ successful_translation' = successful_translation + 1
          /\ pc' = "next"
          /\ UNCHANGED <<error, cell>>
     ELSE /\ Raise("ValueError")
          /\ UNCHANGED <<translated_texts, successful_translation>>
  /\ UNCHANGED <<disk, thai_test_df, thai_train_df, call, df, it, text,
                 response, retval, bar, stdout, requests, outstanding>>

\* The loop is exhausted: tqdm closes and the total is printed.
FinishQuietWhenEmpty ==
  /\ pc = "next"
  /\ it = Len(Column)
  /\ bar' = it
  /\ stdout' = IF translated_texts # <<>>
               THEN Append(stdout, Notification(successful_translation))
               ELSE stdout
  /\ response' = NoResponse
  /\ pc' = "return"
  /\ UNCHANGED <<disk, thai_test_df, thai_train_df, cell, call, df, it, text,
                 translated_texts, successful_translation, retval,
                 requests, outstanding, error>>
Finish ==
  /\ pc = "next"
  /\ it = Len(Column)
  /\ bar' = it
  /\ stdout' = Append(stdout, Notification(successful_translation))
  /\ response' = NoResponse
  /\ pc' = "return"
  /\ UNCHANGED <<disk, thai_test_df, thai_train_df, cell, call, df, it, text,
                 translated_texts, successful_translation, retval,
                 requests, outstanding, error>>

\* return pd.Series(translated_texts, index=df.index)
Return ==
  /\ pc = "return"
  /\ retval' = Series(translated_texts, df.index)
  /\ pc' = "returned"
  /\ UNCHANGED <<disk, thai_test_df, thai_train_df, cell, call, df, it, text,
                 translated_texts, successful_translation, response, bar,
                 stdout, requests, outstanding, error>>

\* thai_X_df['english_comment_text'] = <the returned series>
AssignColumn ==
  /\ pc = "returned"
  /\ cell \in {"translate_test", "translate_train"}
  /\ IF cell = "translate_test"
     THEN /\ thai_test_df' = SetColumn(thai_test_df, OutputColumn, retval)
          /\ cell' = "write_test"
          /\ UNCHANGED thai_train_df
     ELSE /\ thai_train_df' = SetColumn(thai_train_df, OutputColumn, retval)
          /\ cell' = "write_train"
          /\ UNCHANGED thai_test_df
  /\ retval' = NoSeries
  /\ pc' = "idle"
  /\ UNCHANGED <<disk, call, df, it, text, translated_texts,
                 successful_translation, response, bar, stdout,
                 requests, outstanding, error>>

\* thai_X_df.to_csv('mask_X_translated.csv', index=False)
WriteCsvAtTheEnd ==
  /\ cell \in {"write_test", "write_train"}
  /\ IF cell = "write_test"
     THEN /\ disk' = disk
          /\ cell' = "translate_train"
     ELSE /\ disk' = (TestOut :> ToCsv(thai_test_df))
                     @@ (TrainOut :> ToCsv(thai_train_df)) @@ disk
          /\ cell' = "done"
  /\ UNCHANGED <<thai_test_df, thai_train_df, call, pc, df, it, text,
                 translated_texts, successful_translation, response, retval,
                 bar, stdout, requests, outstanding, error>>
WriteCsv ==
  /\ cell \in {"write_test", "write_train"}
  /\ IF cell = "write_test"
     THEN /\ disk' = (TestOut :> ToCsv(thai_test_df)) @@ disk
          /\ cell' = "translate_train"
     ELSE /\ disk' = (TrainOut :> ToCsv(thai_train_df)) @@ disk
          /\ cell' = "done"
  /\ UNCHANGED <<thai_test_df, thai_train_df, call, pc, df, it, text,
                 translated_texts, successful_translation, response, retval,
                 bar, stdout, requests, outstanding, error>>

Next ==
  \/ LoadDatasets
  \/ TranslateStart
  \/ NextRow
  \/ SendRequest
  \/ ServiceReply
  \/ ServiceFail
  \/ Collect
  \/ Finish
  \/ Return
  \/ AssignColumn
  \/ WriteCsv

Spec == Init /\ [][Next]_vars
LongSpec == LongInit /\ [][Next]_vars

\* ------------------------------------------------------ claims: vocabulary
\* The requests and the notifications of the current call of translate_column.
CallRequests == SelectSeq(requests, LAMBDA r : r.call = call)
CallStdout == SelectSeq(stdout, LAMBDA o : o.call = call)
Cites(c) == Cardinality({j \in 1..Len(CallStdout) : CallStdout[j].count = c})

\* The column the current call was given, as the caller's frame holds it.
InputRows == CallerFrame(call).cols[InputColumn]
OutFile(c) == IF c = "test" THEN TestOut ELSE TrainOut

\* e is s without its leading and trailing whitespace: s is e between two
\* runs of whitespace, and e neither starts nor ends with whitespace.
IsTrimOf(e, s) ==
  /\ \E a \in 1..(Len(s) + 1) :
       /\ a + Len(e) - 1 <= Len(s)
       /\ e = SubSeq(s, a, a + Len(e) - 1)
       /\ \A k \in 1..Len(s) :
            (k < a \/ k > a + Len(e) - 1) => s[k] \in Whitespace
  /\ e # <<>> => (e[1] \notin Whitespace /\ e[Len(e)] \notin Whitespace)

ServiceErrors == {"ServiceError", "ValueError"}

\* C1: when translate_column returns (every service call succeeded), the
\* returned series has one entry per input row under the dataset's own row
\* index, and entry i is the trimmed translation of input row i.
C1_AlignedResult ==
  pc = "returned" =>
    /\ retval.index = CallerFrame(call).index
    /\ Len(retval.values) = Len(InputRows)
    /\ \A i \in 1..Len(InputRows) :
         IsTrimOf(retval.values[i], Translation(InputRows[i]))

\* A run returned two different entries for two different rows.
C1_Witness ==
  /\ pc = "returned"
  /\ Len(retval.values) = 2
  /\ retval.values[1] = <<"K">>
  /\ retval.values[2] = <<"{", "\n", "M", " ", "}", "!">>

\* C2: once the call or the reading of the response text has failed on row k,
\* nothing is returned: the exception is at the top level, the k collected
\* translations are in no returned series, in no column of the caller's
\* frame and in no output file of that dataset, and row k was the last row
\* submitted.
C2_FailureReturnsNothing ==
  error \in ServiceErrors =>
    /\ pc = "raised"
    /\ cell = "error"
    /\ retval = NoSeries
    /\ OutputColumn \notin DOMAIN CallerFrame(call).cols
    /\ OutFile(call) \notin DOMAIN disk
    /\ Len(CallRequests) = Len(translated_texts) + 1
    /\ CallRequests[Len(CallRequests)].row = Len(translated_texts)

\* The second row failed after the first was collected.
C2_Witness ==
  /\ error = "ServiceError"
  /\ Len(translated_texts) = 1
  /\ translated_texts[1] = <<"K">>
  /\ retval = NoSeries

\* C3: the requests of one call are the rows 0, 1, 2, ... in order, each
\* once and each carrying that one row's text; a returned call has issued n
\* requests and a call that failed on row k has issued k+1.
C3_OneRequestPerRow ==
  /\ call # "none" /\ error # "KeyError" =>
       /\ \A j \in 1..Len(CallRequests) :
            /\ CallRequests[j].row = j - 1
            /\ CallRequests[j].prompt =
                 TemplateHead \o InputRows[j] \o TemplateTail
       /\ Len(CallRequests) <= Len(InputRows)
       /\ pc \in {"return", "returned"} => Len(CallRequests) = Len(InputRows)
  /\ error \in ServiceErrors => Len(CallRequests) = Len(translated_texts) + 1

\* A two-row call that failed on its second row, after two requests.
C3_Witness ==
  /\ error = "ValueError"
  /\ Len(translated_texts) = 1
  /\ Len(CallRequests) = 2
  /\ Len(InputRows) = 2

\* C4: at most one request is outstanding, and while the request for row i
\* is outstanding the responses of rows 0..i-1 have all been received and
\* appended.
C4_OneAtATime ==
  /\ outstanding \in {0, 1}
  /\ outstanding = 1 =>
       /\ pc = "wait"
       /\ Len(translated_texts) = Len(CallRequests) - 1
       /\ CallRequests[Len(CallRequests)].row = Len(translated_texts)
  /\ pc = "wait" => outstanding = 1

\* The request for the second row is outstanding, the first row's entry is in.
C4_Witness ==
  /\ pc = "wait"
  /\ outstanding = 1
  /\ Len(translated_texts) = 1
  /\ Len(CallRequests) = 2

\* C5: for every multiple c of 100 the current call has reached, exactly one
\* notification of the call cites c as soon as the loop has moved on from
\* the c-th successful row (to the next row's request, to the return, or to
\* a failure); none cites a multiple not yet reached and none is cited twice.
C5_MilestoneOnce ==
  \A m \in 1..((MaxLongRows \div Milestone) + 1) :
    LET c == m * Milestone IN
      /\ Cites(c) <= 1
      /\ c > successful_translation => Cites(c) = 0
      /\ (c <= successful_translation
            /\ ~(pc = "next" /\ successful_translation = c)) => Cites(c) = 1

\* The row after the 200th successful row failed.
C5_Witness ==
  /\ error = "ServiceError"
  /\ successful_translation = 2 * Milestone
  /\ Cites(Milestone) = 1
  /\ Cites(2 * Milestone) = 1

\* C6: when the loop has ended without a failure, the last notification
\* cites the number n of rows, all n translations are collected, and it is
\* there before the series is returned; the returned series has as many
\* entries as the notification cites.
C6_FinalNotification ==
  pc \in {"return", "returned"} =>
    /\ Len(translated_texts) = Len(InputRows)
    /\ stdout # <<>>
    /\ stdout[Len(stdout)] = [call |-> call, count |-> Len(InputRows)]
    /\ pc = "return" => retval = NoSeries
    /\ pc = "returned" => stdout[Len(stdout)].count = Len(retval.values)

\* A call on a dataset without rows returned, after citing 0.
C6_Witness ==
  /\ pc = "returned"
  /\ InputRows = <<>>
  /\ CallStdout = <<[call |-> call, count |-> 0]>>

\* C7: after a failure on row k the live counter stands at k, the number of
\* translations collected; and every notification cites, when it is
\* printed, the number of translations collected so far.
C7_ProgressShowsCollected ==
  /\ [](error \in ServiceErrors =>
          /\ bar = Len(translated_texts)
          /\ \A j \in 1..Len(CallStdout) :
               CallStdout[j].count <= Len(translated_texts))
  /\ [][stdout' # stdout =>
          stdout' = Append(stdout,
                      [call |-> call, count |-> Len(translated_texts)])]_vars

\* Row 101 failed: the counter shows 101, the one notification cited 100.
C7_Witness ==
  /\ error = "ServiceError"
  /\ bar = Milestone + 1
  /\ Len(translated_texts) = Milestone + 1
  /\ CallStdout = <<[call |-> call, count |-> Milestone]>>

\* C8: an output file exists only for a dataset whose translation returned:
\* it and the frame then hold the new column, one entry per input row.  After
\* a failure the notebook has stopped at the error, and the failing dataset
\* has neither an output file nor the new column in memory.
C8_WriteOnlyAfterSuccess ==
  /\ \A c \in {"test", "train"} :
       OutFile(c) \in DOMAIN disk =>
         /\ OutputColumn \in DOMAIN CallerFrame(c).cols
         /\ OutputColumn \in DOMAIN disk[OutFile(c)]
         /\ Len(disk[OutFile(c)][OutputColumn]) = Len(CallerFrame(c).index)
         /\ ~(call = c /\ error # "none")
  /\ error # "none" =>
       /\ cell = "error"
       /\ OutFile(call) \notin DOMAIN disk
       /\ OutputColumn \notin DOMAIN CallerFrame(call).cols

\* The train dataset failed on its second row after the test file was written.
C8_Witness ==
  /\ error = "ServiceError"
  /\ call = "train"
  /\ Len(translated_texts) = 1
  /\ TestOut \in DOMAIN disk
  /\ TrainOut \notin DOMAIN disk

\* C9: a call on a frame without the target column has failed with KeyError
\* at once: no request and no notification of that call exists, nothing was
\* counted or collected; no other call fails with KeyError.
C9_MissingColumnFailsFirst ==
  /\ (call # "none" /\ InputColumn \notin DOMAIN CallerFrame(call).cols) =>
       /\ error = "KeyError"
       /\ pc = "raised"
       /\ CallRequests = <<>>
       /\ CallStdout = <<>>
       /\ bar = 0
       /\ translated_texts = <<>>
  /\ error = "KeyError" => InputColumn \notin DOMAIN CallerFrame(call).cols

\* The train frame lacks the column; the test dataset was translated before.
C9_Witness ==
  /\ error = "KeyError"
  /\ call = "train"
  /\ Len(requests) = 2
  /\ CallRequests = <<>>

\* C10: the entry appended for a response is the response text without its
\* leading and trailing whitespace, everything between unchanged; every
\* collected entry is left unchanged by trimming it again.
C10_EntriesTrimmed ==
  /\ \A i \in 1..Len(translated_texts) :
       Strip(translated_texts[i]) = translated_texts[i]
  /\ (pc = "next" /\ response.kind = "text") =>
       IsTrimOf(translated_texts[Len(translated_texts)], response.text)

\* A response padded on both sides was collected with its inner whitespace.
C10_Witness ==
  /\ pc = "next"
  /\ response.text = <<"\n", " ", "{", "\n", "M", " ", "}", "!", " ">>
  /\ translated_texts[Len(translated_texts)] = <<"{", "\n", "M", " ", "}", "!">>

\* The text of the row a request was issued for.
RequestText(r) == CallerFrame(r.call).cols[InputColumn][r.row + 1]

\* C11: the prompt of every request is the fixed template with the row's
\* text standing verbatim, character for character, at the placeholder; two
\* requests for the same text, in the same call or in different calls and
\* at whatever row, carry the same prompt.
C11_PromptVerbatim ==
  /\ \A j \in 1..Len(requests) :
       LET p == requests[j].prompt
           t == RequestText(requests[j])
           h == Len(TemplateHead)
       IN /\ Len(p) = h + Len(t) + Len(TemplateTail)
          /\ SubSeq(p, 1, h) = TemplateHead
          /\ \A k \in 1..Len(t) : p[h + k] = t[k]
          /\ SubSeq(p, h + Len(t) + 1, Len(p)) = TemplateTail
  /\ \A i, j \in 1..Len(requests) :
       RequestText(requests[i]) = RequestText(requests[j])
         => requests[i].prompt = requests[j].prompt

\* The text with braces, a newline and punctuation was rendered as the first
\* row of the test call and as the second row of the train call.
C11_Witness ==
  /\ Len(requests) = 3
  /\ requests[1].call = "test" /\ requests[1].row = 0
  /\ requests[3].call = "train" /\ requests[3].row = 1
  /\ RequestText(requests[1]) = <<"{", "\n", "m", " ", "}", "!">>
  /\ RequestText(requests[3]) = RequestText(requests[1])
  /\ requests[3].prompt = requests[1].prompt

\* C12: every request, of either call and whatever happened to the rows
\* before it, carries the same four safety settings: one per harm category,
\* each with threshold BLOCK_NONE.
C12_StaticSafetyPolicy ==
  \A j \in 1..Len(requests) :
    LET ss == requests[j].safety_settings IN
      /\ Len(ss) = 4
      /\ {ss[k].category : k \in 1..Len(ss)} =
           {"HARM_CATEGORY_DANGEROUS_CONTENT", "HARM_CATEGORY_HARASSMENT",
            "HARM_CATEGORY_HATE_SPEECH", "HARM_CATEGORY_SEXUALLY_EXPLICIT"}
      /\ \A k \in 1..Len(ss) : ss[k].threshold = "BLOCK_NONE"
      /\ ss = requests[1].safety_settings

\* The fourth request, the second of the train call, failed; it carried the
\* settings the first request of the test call carried.
C12_Witness ==
  /\ Len(requests) = 4
  /\ requests[4].call = "train"
  /\ error = "ServiceError"
  /\ requests[4].safety_settings = requests[1].safety_settings
  /\ Len(requests[4].safety_settings) = 4

InFile(c) == IF c = "test" THEN TestIn ELSE TrainIn

\* A caller's frame is its input file as loaded, but for the output column.
FrameAsLoaded(c) ==
  LET f == CallerFrame(c)
      src == disk[InFile(c)]
  IN /\ f.index = [i \in 1..NRows(src) |-> i - 1]
     /\ DOMAIN f.cols \ {OutputColumn} = DOMAIN src
     /\ \A n \in DOMAIN src : f.cols[n] = src[n]
     /\ OutputColumn \in DOMAIN f.cols =>
          /\ (call = c /\ pc = "idle") \/ (c = "test" /\ call = "train")
          /\ Len(f.cols[OutputColumn]) = Len(f.index)

\* C13: from its entry on, through success or failure, the frame
\* translate_column was given is the loaded input file, values, order and
\* index; so is each caller's frame, whose only change is the output column
\* present once the call for it has returned and the driver has assigned
\* it.  The input files are never rewritten and the given frame changes
\* only when a call is entered.
C13_DatasetUnmodified ==
  /\ [](/\ (call # "none" /\ pc # "idle") =>
             /\ df.index = [i \in 1..NRows(disk[InFile(call)]) |-> i - 1]
             /\ df.cols = disk[InFile(call)]
        /\ cell # "load" => FrameAsLoaded("test") /\ FrameAsLoaded("train"))
  /\ [][/\ disk'[TestIn] = disk[TestIn]
        /\ disk'[TrainIn] = disk[TrainIn]
        /\ df' # df => (pc = "idle" /\ pc' # "idle")]_vars

\* The test frame received the output column beside its two unchanged rows.
C13_Witness ==
  /\ cell = "write_test"
  /\ OutputColumn \in DOMAIN thai_test_df.cols
  /\ thai_test_df.cols[InputColumn] = << <<"{", "\n", "m", " ", "}", "!">>, <<"k">> >>
  /\ thai_test_df.cols[OutputColumn] = << <<"{", "\n", "M", " ", "}", "!">>, <<"K">> >>
  /\ thai_test_df.index = <<0, 1>>

\* The counts the current call has cited, in order.
CallCounts == [j \in 1..Len(CallStdout) |-> CallStdout[j].count]

\* The positive multiples of Milestone up to k, in increasing order.
MultiplesUpTo(k) == [j \in 1..(k \div Milestone) |-> j * Milestone]

\* C14: while no row has failed, the counts cited so far are the positive
\* multiples of 100 up to the index of the row in hand (so each is cited
\* after its row completed and before the next row's request, which is not
\* yet issued when the milestone has just been printed); when the loop has
\* ended, the counts are the positive multiples of 100 below n followed by
\* n itself.
C14_NotificationSequence ==
  /\ pc \in {"next", "render", "wait", "got"} =>
       CallCounts = MultiplesUpTo(it - 1)
  /\ (pc = "render" /\ it > 1 /\ (it - 1) % Milestone = 0) =>
       /\ CallCounts[Len(CallCounts)] = it - 1
       /\ Len(CallRequests) = it - 1
  /\ (pc \in {"return", "returned"} \/ (call # "none" /\ pc = "idle")) =>
       CallCounts = MultiplesUpTo(Len(InputRows) - 1) \o <<Len(InputRows)>>

\* A call over 201 rows returned after citing 100, 200 and 201.
C14_Witness ==
  /\ pc = "returned"
  /\ Len(InputRows) = 2 * Milestone + 1
  /\ CallCounts = <<Milestone, 2 * Milestone, 2 * Milestone + 1>>

TrainRequested == \E j \in 1..Len(requests) : requests[j].call = "train"

\* C15: both frames are loaded before any call of translate_column; every
\* request of the test call precedes every request of the train call, and
\* the train call starts only with the test output file written; after a
\* failure in the test call neither output file exists and no train request
\* was issued; after a failure in the train call the test output file is
\* there as it was written and the train output file is not.  A written
\* test output file never changes.
C15_DatasetsInSequence ==
  /\ [](/\ call # "none" =>
             /\ cell # "load"
             /\ DOMAIN thai_test_df.cols # {}
             /\ DOMAIN thai_train_df.cols # {}
        /\ \A i, j \in 1..Len(requests) :
             (i < j /\ requests[i].call = "train") => requests[j].call = "train"
        /\ (call = "train" \/ TrainRequested) => TestOut \in DOMAIN disk
        /\ TrainOut \in DOMAIN disk => TestOut \in DOMAIN disk
        /\ (error # "none" /\ call = "test") =>
             /\ TestOut \notin DOMAIN disk
             /\ TrainOut \notin DOMAIN disk
             /\ ~TrainRequested
        /\ (error # "none" /\ call = "train") =>
             /\ TestOut \in DOMAIN disk
             /\ disk[TestOut] = thai_test_df.cols
             /\ TrainOut \notin DOMAIN disk)
  /\ [][(TestOut \in DOMAIN disk) =>
          (TestOut \in DOMAIN disk' /\ disk'[TestOut] = disk[TestOut])]_vars

\* The train call failed reading its first response, after the two-row
\* test dataset was translated and written.
C15_Witness ==
  /\ error = "ValueError"
  /\ call = "train"
  /\ translated_texts = <<>>
  /\ TestOut \in DOMAIN disk
  /\ Len(disk[TestOut][OutputColumn]) = 2
  /\ TrainOut \notin DOMAIN disk

====
